---- MODULE Spec2Model ----
(***************************************************************************)
(* Gateway admin service: the backends / routes / config_history record    *)
(* sets of internal/config/mysql_store.go and the request handlers of      *)
(* internal/handler/backend.go and internal/handler/route.go.              *)
(*                                                                         *)
(* Every handler is a sequence of store round trips; each action below is  *)
(* one round trip together with the local code that runs up to the next    *)
(* one, so concurrent requests interleave exactly at the store calls.      *)
(***************************************************************************)
EXTENDS Integers, Sequences, FiniteSets, TLC

(* ---- bounds of the model ---- *)
MaxRequests == 2
MaxHistory == 3

(* ---- request slots and value domains of request payloads ---- *)
Procs == {1, 2}
BackendNames == {"a", "b"}
Descriptions == {"d"}
Methods == {"GET"}
Patterns == {"/p"}
Services == {"S"}
RpcMethods == {"M"}
Timeouts == {-1, 3000}

None == <<>>
Some(v) == <<v>>
Opt(S) == {None} \cup {Some(v) : v \in S}

VARIABLES
    backends,   \* table backends: sequence of rows, position = auto-increment id
    routes,     \* table routes: sequence of rows, position = auto-increment id
    history,    \* table config_history: sequence of rows in insertion order
    req,        \* per request slot: the handler invocation in flight
    nreq        \* number of requests started so far

vars == <<backends, routes, history, req, nreq>>

\* the payload without one of its keys
Without(pl, key) == [pl EXCEPT ![key] = None]

RequiredRouteKeys ==
    {"http_method", "http_pattern", "backend_name", "backend_service",
     "backend_method"}

\* the payloads of the serial workload
SerialBackendCreates ==
    [name : {Some(n) : n \in BackendNames}, addr : {Some("x")},
     description : {None}, enabled : Opt(BOOLEAN)]
    \cup [name : {None}, addr : {Some("x")}, description : {None}, enabled : {None}]
    \cup [name : {Some("a")}, addr : {None}, description : {None}, enabled : {None}]

SerialBackendUpdates ==
    [name : {None}, addr : {None, Some("y")}, description : Opt(Descriptions),
     enabled : Opt(BOOLEAN)]

MinimalRoutes ==
    [http_method : {Some(m) : m \in Methods}, http_pattern : {Some(x) : x \in Patterns},
     backend_name : {Some(n) : n \in BackendNames},
     backend_service : {Some(s) : s \in Services},
     backend_method : {Some(m) : m \in RpcMethods},
     timeout_ms : {None}, description : {None}, enabled : {None}]

IncompleteRoutes ==
    {Without(pl, k) : pl \in {r \in MinimalRoutes : r.backend_name = Some("a")},
                      k \in RequiredRouteKeys}

\* routes to a backend name that no create of the workload uses
UnknownBackendRoutes ==
    {[pl EXCEPT !.backend_name = Some("c")] :
        pl \in {r \in MinimalRoutes : r.backend_name = Some("a")}}

SerialRouteCreates ==
    {[pl EXCEPT !.timeout_ms = t] : pl \in MinimalRoutes, t \in Opt(Timeouts)}
    \cup IncompleteRoutes \cup UnknownBackendRoutes

SerialRouteUpdates ==
    {[pl EXCEPT !.timeout_ms = t, !.enabled = e, !.description = d] :
        pl \in MinimalRoutes, t \in {None, Some(3000)}, e \in Opt(BOOLEAN),
        d \in Opt(Descriptions)}
    \cup IncompleteRoutes \cup UnknownBackendRoutes

\* the payloads of the concurrent workload
RaceBackendCreates ==
    [name : {Some(n) : n \in BackendNames}, addr : {Some("x")},
     description : {None}, enabled : {None}]

RaceBackendUpdates ==
    [name : {None}, addr : {Some("x")}, description : {None},
     enabled : {None, Some(FALSE)}]

RaceRouteCreates == MinimalRoutes

RaceRouteUpdates == MinimalRoutes

NoPayload == [none |-> TRUE]

Has(payload, key) == payload[key] # None

StrField(payload, key) == IF Has(payload, key) THEN payload[key][1] ELSE ""
BoolField(payload, key) == IF Has(payload, key) THEN payload[key][1] ELSE FALSE
IntField(payload, key) == IF Has(payload, key) THEN payload[key][1] ELSE 0

\* json.Decode / json.Unmarshal into a config.Backend: absent keys give Go zero values.
DecodeBackend(payload) ==
    [id |-> 0,
     name |-> StrField(payload, "name"),
     addr |-> StrField(payload, "addr"),
     description |-> StrField(payload, "description"),
     enabled |-> BoolField(payload, "enabled")]

\* json.Decode / json.Unmarshal into a config.Route
DecodeRoute(payload) ==
    [id |-> 0,
     http_method |-> StrField(payload, "http_method"),
     http_pattern |-> StrField(payload, "http_pattern"),
     backend_name |-> StrField(payload, "backend_name"),
     backend_service |-> StrField(payload, "backend_service"),
     backend_method |-> StrField(payload, "backend_method"),
     timeout_ms |-> IntField(payload, "timeout_ms"),
     description |-> StrField(payload, "description"),
     enabled |-> BoolField(payload, "enabled")]

(* ---- store: backends ---- *)
\* rows.Scan into a Backend (timestamps are not part of the modelled struct)
ScanBackend(row) ==
    [id |-> row.id, name |-> row.name, addr |-> row.addr,
     description |-> row.description, enabled |-> row.enabled]

\* a lookup that sees enabled rows only (WHERE name = ? AND enabled = 1)
GetBackendByNameEnabledOnly(name) ==
    LET m == {i \in 1..Len(backends) : backends[i].name = name /\ backends[i].enabled}
    IN IF m = {} THEN {None} ELSE {Some(ScanBackend(backends[i])) : i \in m}

\* SELECT ... FROM backends WHERE name = ? LIMIT 1   (no ORDER BY: any matching row)
GetBackendByName(name) ==
    LET m == {i \in 1..Len(backends) : backends[i].name = name}
    IN IF m = {} THEN {None} ELSE {Some(ScanBackend(backends[i])) : i \in m}

\* INSERT INTO backends (name, addr, description, enabled): the new table.
StoreCreateBackend(b) ==
    Append(backends, [id |-> Len(backends) + 1, name |-> b.name, addr |-> b.addr,
                      description |-> b.description, enabled |-> b.enabled,
                      updated_at |-> "now"])

\* UPDATE backends SET addr, description, enabled, updated_at WHERE name = ?
StoreUpdateBackend(name, b) ==
    [i \in 1..Len(backends) |->
        IF backends[i].name = name
        THEN [backends[i] EXCEPT !.addr = b.addr, !.description = b.description,
                                 !.enabled = b.enabled, !.updated_at = "now"]
        ELSE backends[i]]

\* a delete that removes the rows (DELETE FROM backends WHERE name = ?)
StoreDeleteBackendHard(name) == SelectSeq(backends, LAMBDA row : row.name # name)

\* UPDATE backends SET enabled = 0, updated_at = CURRENT_TIMESTAMP WHERE name = ?
StoreDeleteBackend(name) ==
    [i \in 1..Len(backends) |->
        IF backends[i].name = name
        THEN [backends[i] EXCEPT !.enabled = FALSE, !.updated_at = "now"]
        ELSE backends[i]]

\* result.RowsAffected(): MySQL counts the rows an UPDATE actually changed.
RowsAffected(old, new) ==
    Cardinality({i \in 1..Len(old) : i > Len(new) \/ new[i] # old[i]})

(* ---- store: routes ---- *)
ScanRoute(row) ==
    [id |-> row.id, http_method |-> row.http_method, http_pattern |-> row.http_pattern,
     backend_name |-> row.backend_name, backend_service |-> row.backend_service,
     backend_method |-> row.backend_method, timeout_ms |-> row.timeout_ms,
     description |-> row.description, enabled |-> row.enabled]

\* SELECT ... FROM routes WHERE id = ? LIMIT 1
GetRouteByID(id) ==
    IF id \in 1..Len(routes) THEN Some(ScanRoute(routes[id])) ELSE None

\* INSERT INTO routes (...): the new table.
StoreCreateRoute(r) ==
    Append(routes, [id |-> Len(routes) + 1, http_method |-> r.http_method,
                    http_pattern |-> r.http_pattern, backend_name |-> r.backend_name,
                    backend_service |-> r.backend_service,
                    backend_method |-> r.backend_method, timeout_ms |-> r.timeout_ms,
                    description |-> r.description, enabled |-> r.enabled,
                    updated_at |-> "now"])

\* UPDATE routes SET <all payload columns>, updated_at = CURRENT_TIMESTAMP WHERE id = ?
StoreUpdateRoute(id, r) ==
    [i \in 1..Len(routes) |->
        IF routes[i].id = id
        THEN [routes[i] EXCEPT
                !.http_method = r.http_method, !.http_pattern = r.http_pattern,
                !.backend_name = r.backend_name, !.backend_service = r.backend_service,
                !.backend_method = r.backend_method, !.timeout_ms = r.timeout_ms,
                !.description = r.description, !.enabled = r.enabled,
                !.updated_at = "now"]
        ELSE routes[i]]

\* UPDATE routes SET enabled = 0, updated_at = CURRENT_TIMESTAMP WHERE id = ?
StoreDeleteRoute(id) ==
    [i \in 1..Len(routes) |->
        IF routes[i].id = id
        THEN [routes[i] EXCEPT !.enabled = FALSE, !.updated_at = "now"]
        ELSE routes[i]]

(* ---- store: config_history ---- *)
\* a recorder that keeps one row per entity (REPLACE instead of INSERT)
StoreCreateHistoryUpsert(h) ==
    LET same == {i \in 1..Len(history) : /\ history[i].config_type = h.config_type
                                         /\ history[i].config_id = h.config_id}
    IN IF same = {}
       THEN Append(history, [id |-> Len(history) + 1, config_type |-> h.config_type,
                             config_id |-> h.config_id, operation |-> h.operation,
                             old_value |-> h.old_value, new_value |-> h.new_value])
       ELSE LET i == CHOOSE j \in same : TRUE
            IN [history EXCEPT ![i].operation = h.operation,
                               ![i].old_value = h.old_value,
                               ![i].new_value = h.new_value]

\* INSERT INTO config_history (config_type, config_id, operation, old_value, new_value)
StoreCreateHistory(h) ==
    Append(history, [id |-> Len(history) + 1, config_type |-> h.config_type,
                     config_id |-> h.config_id, operation |-> h.operation,
                     old_value |-> h.old_value, new_value |-> h.new_value])

\* the rows a history query selects: WHERE 1=1 [AND config_type = ?] [AND config_id = ?]
HistoryMatches(configType, configID) ==
    {i \in 1..Len(history) :
        /\ configType = None \/ history[i].config_type = configType[1]
        /\ configID = None \/ history[i].config_id = configID[1]}

\* the orders ORDER BY created_at DESC allows for the selected rows; rows of one
\* created_at come in any order
CreatedAtDesc(match) ==
    {s \in [1..Cardinality(match) -> match] :
        /\ \A j, k \in DOMAIN s : j # k => s[j] # s[k]
        /\ \A j, k \in DOMAIN s :
                j < k => history[s[j]].created_at >= history[s[k]].created_at}

\* LIMIT ? OFFSET ? of the ordered rows
HistoryPage(s, limit, offset) ==
    LET rest == Len(s) - offset
        n == IF rest < 0 THEN 0 ELSE IF rest < limit THEN rest ELSE limit
    IN [k \in 1..n |-> history[s[offset + k]]]

\* rows.Scan of one row: a NULL old_value or new_value does not convert to the
\* ConfigHistory field, and Scan returns an error
ScanHistoryFails(row) == row.old_value = None \/ row.new_value = None

\* the first statement of MySQLStore.GetHistory: SELECT COUNT(*) of the selected rows
GetHistoryCount(configType, configID) ==
    Cardinality(HistoryMatches(configType, configID))

\* the second statement of MySQLStore.GetHistory: the page query and the scan of its
\* rows; the set of possible outcomes, None for an error
GetHistoryPage(configType, configID, limit, offset) ==
    {LET page == HistoryPage(s, limit, offset)
     IN IF \E k \in 1..Len(page) : ScanHistoryFails(page[k]) THEN None ELSE Some(page) :
        s \in CreatedAtDesc(HistoryMatches(configType, configID))}

\* INSERT INTO config_history on a table that has a created_at column, filled by
\* the database with the time of the insert
StoreCreateHistoryAt(h, at) ==
    Append(history, [id |-> Len(history) + 1, config_type |-> h.config_type,
                     config_id |-> h.config_id, operation |-> h.operation,
                     old_value |-> h.old_value, new_value |-> h.new_value,
                     created_at |-> at])

(* ---- request slots ---- *)
Idle == [pc |-> "idle", op |-> "", payload |-> NoPayload, query |-> FALSE,
         name |-> "", id |-> 0, old |-> None, ent |-> None, result |-> ""]

\* a request as it enters its handler
Request(op, payload, query, name, id) ==
    [Idle EXCEPT !.op = op, !.payload = payload, !.query = query,
                 !.name = name, !.id = id]

\* the handler of request r has written its response
Done(r, result) ==
    [r EXCEPT !.pc = "done", !.old = None, !.ent = None, !.result = result]

CanStart(p) == req[p].pc \in {"idle", "done"} /\ nreq < MaxRequests

\* the step of slot p ends in slot state r and touches no table
Local(p, r) ==
    /\ req' = [req EXCEPT ![p] = r]
    /\ UNCHANGED <<backends, routes, history>>

(* ---- BackendHandler.CreateBackend ---- *)
\* decode, required-field validation, existence check, default of enabled
CreateBackendCheck(p, payload, query, dbOk) ==
    /\ CanStart(p)
    /\ nreq' = nreq + 1
    /\ LET backend == DecodeBackend(payload)
           r == Request("CreateBackend", payload, query, backend.name, 0)
       IN
        IF backend.name = "" \/ backend.addr = ""
        THEN Local(p, Done(r, "ValidationError"))
        ELSE IF ~dbOk
        THEN Local(p, Done(r, "StorageError"))
        ELSE \E existing \in GetBackendByName(backend.name) :
            IF existing # None
            THEN Local(p, Done(r, "Conflict"))
            ELSE Local(p, [r EXCEPT
                    !.pc = "cb_insert",
                    !.ent = Some([backend EXCEPT
                        !.enabled = IF ~query THEN TRUE ELSE backend.enabled])])

\* h.store.CreateBackend(&backend)
CreateBackendInsert(p, dbOk) ==
    /\ req[p].pc = "cb_insert"
    /\ IF ~dbOk
        THEN /\ req' = [req EXCEPT ![p] =
                    Done(req[p], "StorageError")]
             /\ UNCHANGED backends
        ELSE /\ backends' = StoreCreateBackend(req[p].ent[1])
             /\ req' = [req EXCEPT ![p] = [req[p] EXCEPT
                    !.pc = "history", !.id = Len(backends) + 1,
                    !.ent = Some([req[p].ent[1] EXCEPT !.id = Len(backends) + 1]),
                    !.result = "Created"]]
    /\ UNCHANGED <<routes, history, nreq>>

(* ---- BackendHandler.UpdateBackend ---- *)
\* a merge that takes enabled from the decoded struct, where an absent key reads
\* as false
MergeBackendZeroEnabled(name, oldBackend, payload) ==
    [DecodeBackend(payload) EXCEPT !.id = oldBackend.id, !.name = name]

\* the merge of the decoded payload with the existing backend
MergeBackend(name, oldBackend, payload) ==
    LET enabledPresent == Has(payload, "enabled")
        enabledValue == BoolField(payload, "enabled")
        backend == DecodeBackend(payload)
    IN [backend EXCEPT
            !.enabled = IF ~enabledPresent THEN oldBackend.enabled ELSE enabledValue,
            !.id = oldBackend.id,
            !.name = name]

\* read of the existing backend, decode, merge of enabled, validation
UpdateBackendGet(p, name, payload, dbOk) ==
    /\ CanStart(p)
    /\ nreq' = nreq + 1
    /\ LET r == Request("UpdateBackend", payload, FALSE, name, 0) IN
        IF ~dbOk
        THEN Local(p, Done(r, "StorageError"))
        ELSE \E oldBackend \in GetBackendByName(name) :
            IF oldBackend = None
            THEN Local(p, Done(r, "NotFound"))
            ELSE LET backend == MergeBackend(name, oldBackend[1], payload) IN
                IF backend.addr = ""
                THEN Local(p, Done([r EXCEPT !.id = backend.id], "ValidationError"))
                ELSE Local(p, [r EXCEPT
                        !.pc = "ub_write", !.id = backend.id,
                        !.old = oldBackend, !.ent = Some(backend)])

\* h.store.UpdateBackend(name, &backend)
UpdateBackendWrite(p, dbOk) ==
    /\ req[p].pc = "ub_write"
    /\ LET new == StoreUpdateBackend(req[p].name, req[p].ent[1]) IN
        IF ~dbOk
        THEN /\ req' = [req EXCEPT ![p] =
                    Done(req[p], "StorageError")]
             /\ UNCHANGED backends
        ELSE IF RowsAffected(backends, new) = 0
        THEN /\ req' = [req EXCEPT ![p] =
                    Done(req[p], "NotFound")]
             /\ UNCHANGED backends
        ELSE /\ backends' = new
             /\ req' = [req EXCEPT ![p] = [req[p] EXCEPT
                    !.pc = "history", !.result = "OK"]]
    /\ UNCHANGED <<routes, history, nreq>>

(* ---- BackendHandler.DeleteBackend ---- *)
DeleteBackendGet(p, name, dbOk) ==
    /\ CanStart(p)
    /\ nreq' = nreq + 1
    /\ LET r == Request("DeleteBackend", NoPayload, FALSE, name, 0) IN
        IF ~dbOk
        THEN Local(p, Done(r, "StorageError"))
        ELSE \E oldBackend \in GetBackendByName(name) :
            IF oldBackend = None
            THEN Local(p, Done(r, "NotFound"))
            ELSE Local(p, [r EXCEPT
                    !.pc = "db_write", !.id = oldBackend[1].id,
                    !.old = oldBackend])

\* h.store.DeleteBackend(name), then oldBackend.Enabled = false for the history
DeleteBackendWrite(p, dbOk) ==
    /\ req[p].pc = "db_write"
    /\ LET new == StoreDeleteBackend(req[p].name) IN
        IF ~dbOk
        THEN /\ req' = [req EXCEPT ![p] =
                    Done(req[p], "StorageError")]
             /\ UNCHANGED backends
        ELSE IF RowsAffected(backends, new) = 0
        THEN /\ req' = [req EXCEPT ![p] =
                    Done(req[p], "NotFound")]
             /\ UNCHANGED backends
        ELSE /\ backends' = new
             /\ req' = [req EXCEPT ![p] = [req[p] EXCEPT
                    !.pc = "history",
                    !.old = Some([req[p].old[1] EXCEPT !.enabled = FALSE]),
                    !.result = "NoContent"]]
    /\ UNCHANGED <<routes, history, nreq>>

(* ---- RouteHandler.CreateRoute ---- *)
\* a validation that forgets backend_method
RequiredMissingNoMethod(route) ==
    \/ route.http_method = "" \/ route.http_pattern = ""
    \/ route.backend_name = "" \/ route.backend_service = ""

\* required-field validation of a route: one of the five required fields is empty
RequiredMissing(route) ==
    \/ route.http_method = "" \/ route.http_pattern = ""
    \/ route.backend_name = "" \/ route.backend_service = ""
    \/ route.backend_method = ""

\* a backend check that asks for the row only, not for enabled
BackendPresent(backend) == backend # None

\* a lookup that lets every backend name pass
BackendUnchecked(backend) == TRUE

\* the backend lookup of the route handlers passes: the row exists and is enabled
BackendUsable(backend) == backend # None /\ backend[1].enabled

\* default values of a new route: timeout_ms and enabled
RouteDefaults(route, query) ==
    [route EXCEPT
        !.timeout_ms = IF route.timeout_ms <= 0 THEN 5000 ELSE route.timeout_ms,
        !.enabled = IF ~query THEN TRUE ELSE route.enabled]

\* decode, required-field validation, backend check, defaults
CreateRouteCheck(p, payload, query, dbOk) ==
    /\ CanStart(p)
    /\ nreq' = nreq + 1
    /\ LET route == DecodeRoute(payload)
           r == Request("CreateRoute", payload, query, route.backend_name, 0)
       IN
        IF RequiredMissing(route)
        THEN Local(p, Done(r, "ValidationError"))
        ELSE IF ~dbOk
        THEN Local(p, Done(r, "StorageError"))
        ELSE \E backend \in GetBackendByName(route.backend_name) :
            IF ~BackendUsable(backend)
            THEN Local(p, Done(r, "InvalidReference"))
            ELSE Local(p, [r EXCEPT
                    !.pc = "cr_insert",
                    !.ent = Some(RouteDefaults(route, query))])

\* h.store.CreateRoute(&route)
CreateRouteInsert(p, dbOk) ==
    /\ req[p].pc = "cr_insert"
    /\ IF ~dbOk
        THEN /\ req' = [req EXCEPT ![p] =
                    Done(req[p], "StorageError")]
             /\ UNCHANGED routes
        ELSE /\ routes' = StoreCreateRoute(req[p].ent[1])
             /\ req' = [req EXCEPT ![p] = [req[p] EXCEPT
                    !.pc = "history", !.id = Len(routes) + 1,
                    !.ent = Some([req[p].ent[1] EXCEPT !.id = Len(routes) + 1]),
                    !.result = "Created"]]
    /\ UNCHANGED <<backends, history, nreq>>

(* ---- RouteHandler.UpdateRoute ---- *)
\* a merge that keeps the stored description and timeout_ms when the payload
\* omits them
MergeRoutePreserving(id, oldRoute, payload) ==
    LET route == DecodeRoute(payload)
    IN [route EXCEPT
            !.description = IF Has(payload, "description") THEN route.description
                            ELSE oldRoute.description,
            !.timeout_ms = IF Has(payload, "timeout_ms") THEN route.timeout_ms
                           ELSE oldRoute.timeout_ms,
            !.enabled = IF Has(payload, "enabled") THEN route.enabled
                        ELSE oldRoute.enabled,
            !.id = id]

\* the merge of the decoded payload with the existing route
MergeRoute(id, oldRoute, payload) ==
    LET enabledPresent == Has(payload, "enabled")
        enabledValue == BoolField(payload, "enabled")
        route == DecodeRoute(payload)
    IN [route EXCEPT
            !.enabled = IF ~enabledPresent THEN oldRoute.enabled ELSE enabledValue,
            !.id = id]

\* read of the existing route, decode, merge of enabled, validation
UpdateRouteGet(p, id, payload, dbOk) ==
    /\ CanStart(p)
    /\ nreq' = nreq + 1
    /\ LET r == Request("UpdateRoute", payload, FALSE, "", id) IN
        IF ~dbOk
        THEN Local(p, Done(r, "StorageError"))
        ELSE LET oldRoute == GetRouteByID(id) IN
            IF oldRoute = None
            THEN Local(p, Done(r, "NotFound"))
            ELSE LET route == MergeRoute(id, oldRoute[1], payload) IN
                IF RequiredMissing(route)
                THEN Local(p, Done(r, "ValidationError"))
                ELSE Local(p, [r EXCEPT
                        !.pc = IF route.backend_name # oldRoute[1].backend_name
                               THEN "ur_check" ELSE "ur_write",
                        !.name = route.backend_name,
                        !.old = oldRoute, !.ent = Some(route)])

\* the backend lookup that runs when backend_name changed
UpdateRouteCheck(p, dbOk) ==
    /\ req[p].pc = "ur_check"
    /\ IF ~dbOk
        THEN req' = [req EXCEPT ![p] =
                Done(req[p], "StorageError")]
        ELSE \E backend \in GetBackendByName(req[p].ent[1].backend_name) :
            IF ~BackendUsable(backend)
            THEN req' = [req EXCEPT ![p] =
                    Done(req[p], "InvalidReference")]
            ELSE req' = [req EXCEPT ![p].pc = "ur_write"]
    /\ UNCHANGED <<backends, routes, history, nreq>>

\* a write whose row is stored although the store call reports an error
UpdateRouteWriteThenFail(p, dbOk) ==
    /\ req[p].pc = "ur_write"
    /\ LET new == StoreUpdateRoute(req[p].id, req[p].ent[1]) IN
        IF RowsAffected(routes, new) = 0
        THEN /\ req' = [req EXCEPT ![p] = Done(req[p], "NotFound")]
             /\ UNCHANGED routes
        ELSE /\ routes' = new
             /\ req' = [req EXCEPT ![p] =
                    IF dbOk THEN [req[p] EXCEPT !.pc = "history", !.result = "OK"]
                    ELSE Done(req[p], "StorageError")]
    /\ UNCHANGED <<backends, history, nreq>>

\* h.store.UpdateRoute(id, &route)
UpdateRouteWrite(p, dbOk) ==
    /\ req[p].pc = "ur_write"
    /\ LET new == StoreUpdateRoute(req[p].id, req[p].ent[1]) IN
        IF ~dbOk
        THEN /\ req' = [req EXCEPT ![p] =
                    Done(req[p], "StorageError")]
             /\ UNCHANGED routes
        ELSE IF RowsAffected(routes, new) = 0
        THEN /\ req' = [req EXCEPT ![p] =
                    Done(req[p], "NotFound")]
             /\ UNCHANGED routes
        ELSE /\ routes' = new
             /\ req' = [req EXCEPT ![p] = [req[p] EXCEPT
                    !.pc = "history", !.result = "OK"]]
    /\ UNCHANGED <<backends, history, nreq>>

(* ---- RouteHandler.DeleteRoute ---- *)
DeleteRouteGet(p, id, dbOk) ==
    /\ CanStart(p)
    /\ nreq' = nreq + 1
    /\ LET r == Request("DeleteRoute", NoPayload, FALSE, "", id) IN
        IF ~dbOk
        THEN Local(p, Done(r, "StorageError"))
        ELSE LET oldRoute == GetRouteByID(id) IN
            IF oldRoute = None
            THEN Local(p, Done(r, "NotFound"))
            ELSE Local(p, [r EXCEPT !.pc = "dr_write", !.old = oldRoute])

\* h.store.DeleteRoute(id), then oldRoute.Enabled = false for the history
DeleteRouteWrite(p, dbOk) ==
    /\ req[p].pc = "dr_write"
    /\ LET new == StoreDeleteRoute(req[p].id) IN
        IF ~dbOk
        THEN /\ req' = [req EXCEPT ![p] =
                    Done(req[p], "StorageError")]
             /\ UNCHANGED routes
        ELSE IF RowsAffected(routes, new) = 0
        THEN /\ req' = [req EXCEPT ![p] =
                    Done(req[p], "NotFound")]
             /\ UNCHANGED routes
        ELSE /\ routes' = new
             /\ req' = [req EXCEPT ![p] = [req[p] EXCEPT
                    !.pc = "history",
                    !.old = Some([req[p].old[1] EXCEPT !.enabled = FALSE]),
                    !.result = "NoContent"]]
    /\ UNCHANGED <<backends, history, nreq>>

(* ---- recordHistory of both handlers ---- *)
\* a recorder that files every change under "backend"
ConfigTypeBackendOnly(op) == "backend"

ConfigType(op) == IF op \in {"CreateBackend", "UpdateBackend", "DeleteBackend"}
                  THEN "backend" ELSE "route"

Operation(op) == IF op \in {"CreateBackend", "CreateRoute"} THEN "CREATE"
                 ELSE IF op \in {"UpdateBackend", "UpdateRoute"} THEN "UPDATE"
                 ELSE "DELETE"

\* the ConfigHistory value recordHistory builds from its arguments
HistoryOf(r) ==
    [config_type |-> ConfigType(r.op), config_id |-> r.id,
     operation |-> Operation(r.op), old_value |-> r.old, new_value |-> r.ent]

\* a recorder whose error fails the request
RecordHistoryFatal(p, dbOk) ==
    /\ req[p].pc = "history"
    /\ history' = IF dbOk THEN StoreCreateHistory(HistoryOf(req[p])) ELSE history
    /\ req' = [req EXCEPT ![p] =
                Done(req[p], IF dbOk THEN req[p].result ELSE "StorageError")]
    /\ UNCHANGED <<backends, routes, nreq>>

\* h.store.CreateHistory(history); an error is logged and swallowed
RecordHistory(p, dbOk) ==
    /\ req[p].pc = "history"
    /\ history' = IF dbOk THEN StoreCreateHistory(HistoryOf(req[p])) ELSE history
    /\ req' = [req EXCEPT ![p] = Done(req[p], req[p].result)]
    /\ UNCHANGED <<backends, routes, nreq>>

\* The statements read updated_at in one way only: an UPDATE changes a row unless
\* the row's updated_at already equals CURRENT_TIMESTAMP. So updated_at is kept
\* relative to the database clock: "now" for a row written in the current second,
\* "earlier" for a row written before it.
Shift(table) ==
    [i \in 1..Len(table) |-> [table[i] EXCEPT !.updated_at = "earlier"]]

\* the database clock advances to the next second
Tick ==
    /\ backends' = Shift(backends)
    /\ routes' = Shift(routes)
    /\ <<backends', routes'>> # <<backends, routes>>
    /\ UNCHANGED <<history, req, nreq>>

\* a database that already holds configuration: the tables as three requests of
\* this service leave them (CreateBackend a, CreateBackend b, CreateRoute 1 -> a)
SeedBackends ==
    << [id |-> 1, name |-> "a", addr |-> "x", description |-> "d",
        enabled |-> TRUE, updated_at |-> "earlier"],
       [id |-> 2, name |-> "b", addr |-> "y", description |-> "",
        enabled |-> TRUE, updated_at |-> "earlier"] >>

SeedRoutes ==
    << [id |-> 1, http_method |-> "GET", http_pattern |-> "/p",
        backend_name |-> "a", backend_service |-> "S", backend_method |-> "M",
        timeout_ms |-> 5000, description |-> "d", enabled |-> TRUE,
        updated_at |-> "earlier"] >>

SeedHistory ==
    << [id |-> 1, config_type |-> "backend", config_id |-> 1, operation |-> "CREATE",
        old_value |-> None, new_value |-> Some(ScanBackend(SeedBackends[1]))],
       [id |-> 2, config_type |-> "backend", config_id |-> 2, operation |-> "CREATE",
        old_value |-> None, new_value |-> Some(ScanBackend(SeedBackends[2]))],
       [id |-> 3, config_type |-> "route", config_id |-> 1, operation |-> "CREATE",
        old_value |-> None, new_value |-> Some(ScanRoute(SeedRoutes[1]))] >>

\* the service starts on an empty database or on one that holds configuration
Init ==
    /\ \/ backends = <<>> /\ routes = <<>> /\ history = <<>>
       \/ backends = SeedBackends /\ routes = SeedRoutes /\ history = SeedHistory
    /\ req = [p \in Procs |-> Idle]
    /\ nreq = 0

\* the route ids a request may name: the existing ones and one that does not exist
RouteIds == 1..(Len(routes) + 1)

\* the steps of the handlers that continue a request in flight; dbOk tells
\* whether the store call of the step returns without an error
Continue(p, dbOk) ==
    \/ CreateBackendInsert(p, dbOk)
    \/ UpdateBackendWrite(p, dbOk)
    \/ DeleteBackendWrite(p, dbOk)
    \/ CreateRouteInsert(p, dbOk)
    \/ UpdateRouteCheck(p, dbOk)
    \/ UpdateRouteWrite(p, dbOk)
    \/ DeleteRouteWrite(p, dbOk)
    \/ RecordHistory(p, dbOk)

\* concurrent requests in every slot over the payloads of the concurrent workload;
\* every store call may fail
Next ==
    \/ \E p \in Procs, pl \in RaceBackendCreates, dbOk \in BOOLEAN :
            CreateBackendCheck(p, pl, FALSE, dbOk)
    \/ \E p \in Procs, n \in BackendNames, pl \in RaceBackendUpdates, dbOk \in BOOLEAN :
            UpdateBackendGet(p, n, pl, dbOk)
    \/ \E p \in Procs, n \in BackendNames, dbOk \in BOOLEAN :
            DeleteBackendGet(p, n, dbOk)
    \/ \E p \in Procs, pl \in RaceRouteCreates, dbOk \in BOOLEAN :
            CreateRouteCheck(p, pl, FALSE, dbOk)
    \/ \E p \in Procs, id \in RouteIds, pl \in RaceRouteUpdates, dbOk \in BOOLEAN :
            UpdateRouteGet(p, id, pl, dbOk)
    \/ \E p \in Procs, id \in RouteIds, dbOk \in BOOLEAN : DeleteRouteGet(p, id, dbOk)
    \/ \E p \in Procs, dbOk \in BOOLEAN : Continue(p, dbOk)
    \/ Tick

Spec == Init /\ [][Next]_vars

\* one request at a time (slot 1 only) on a store that does not fail, over the
\* payloads of the serial workload
NextSerial ==
    \/ \E pl \in SerialBackendCreates, q \in BOOLEAN : CreateBackendCheck(1, pl, q, TRUE)
    \/ \E n \in BackendNames, pl \in SerialBackendUpdates :
            UpdateBackendGet(1, n, pl, TRUE)
    \/ \E n \in BackendNames : DeleteBackendGet(1, n, TRUE)
    \/ \E pl \in SerialRouteCreates : CreateRouteCheck(1, pl, FALSE, TRUE)
    \/ \E id \in RouteIds, pl \in SerialRouteUpdates : UpdateRouteGet(1, id, pl, TRUE)
    \/ \E id \in RouteIds : DeleteRouteGet(1, id, TRUE)
    \/ Continue(1, TRUE)
    \/ Tick

SerialSpec == Init /\ [][NextSerial]_vars

(* ---- HistoryHandler.ListHistory ---- *)
DefaultLimit == 50
MaxLimit == 100

\* the query parameters of GET /api/v1/history; an absent parameter is None, and
\* -1 stands for a config_id that does not parse as an unsigned number
ConfigTypeParams == Opt({"backend", "route", "x"})
ConfigIdParams == Opt({1, -1})
LimitParams == Opt({0, 1, 2, 101})
OffsetParams == Opt({-1, 1})

\* parameter validation, limit and offset defaults, and the first statement of
\* h.store.GetHistory; the handler keeps nothing between requests, so a slot
\* serves one query
ListHistoryCount(p, typeParam, idParam, limitParam, offsetParam, dbOk) ==
    /\ req[p].pc = "idle"
    /\ UNCHANGED nreq
    /\ LET query == [config_type |-> typeParam, config_id |-> idParam,
                     limit |-> limitParam, offset |-> offsetParam]
           r == Request("ListHistory", query, FALSE, "", 0)
           limit == IF /\ limitParam # None
                       /\ limitParam[1] > 0
                       /\ limitParam[1] <= MaxLimit
                    THEN limitParam[1] ELSE DefaultLimit
           offset == IF offsetParam # None /\ offsetParam[1] >= 0
                     THEN offsetParam[1] ELSE 0
       IN
        IF typeParam # None /\ typeParam[1] \notin {"backend", "route"}
        THEN Local(p, Done(r, "ValidationError"))
        ELSE IF idParam # None /\ idParam[1] < 0
        THEN Local(p, Done(r, "ValidationError"))
        ELSE IF ~dbOk
        THEN Local(p, Done(r, "StorageError"))
        ELSE Local(p, [r EXCEPT
                !.pc = "lh_page",
                !.ent = Some([total |-> GetHistoryCount(typeParam, idParam),
                              limit |-> limit, offset |-> offset])])

\* the second statement of h.store.GetHistory and the response
ListHistoryPage(p, dbOk) ==
    /\ req[p].pc = "lh_page"
    /\ UNCHANGED nreq
    /\ LET q == req[p].payload
           c == req[p].ent[1]
       IN
        IF ~dbOk
        THEN Local(p, Done(req[p], "StorageError"))
        ELSE \E page \in GetHistoryPage(q.config_type, q.config_id, c.limit, c.offset) :
            IF page = None
            THEN Local(p, Done(req[p], "StorageError"))
            ELSE Local(p, [req[p] EXCEPT
                    !.pc = "done", !.result = "OK",
                    !.ent = Some([items |-> page[1], total |-> c.total,
                                  limit |-> c.limit, offset |-> c.offset])])

\* the entities the history rows of other requests refer to, the changes they
\* record, and the times of the database clock
HistoryRowKinds == {<<"backend", 1>>, <<"backend", 2>>, <<"route", 1>>}
HistoryOperations == {"CREATE", "UPDATE", "DELETE"}
CreatedAts == {1, 2}

\* recordHistory of another request: a CREATE row has no old_value, a DELETE row no
\* new_value; the clock of the database does not run backwards
OtherRecordHistory(kind, operation, at) ==
    /\ Len(history) < MaxHistory
    /\ \A i \in 1..Len(history) : history[i].created_at <= at
    /\ history' = StoreCreateHistoryAt(
            [config_type |-> kind[1], config_id |-> kind[2], operation |-> operation,
             old_value |-> IF operation = "CREATE" THEN None ELSE Some("old"),
             new_value |-> IF operation = "DELETE" THEN None ELSE Some("new")], at)
    /\ UNCHANGED <<backends, routes, req, nreq>>

HistoryInit ==
    /\ backends = <<>>
    /\ routes = <<>>
    /\ history = <<>>
    /\ req = [p \in Procs |-> Idle]
    /\ nreq = 0

HistoryNext ==
    \/ \E t \in ConfigTypeParams, i \in ConfigIdParams, l \in LimitParams,
          o \in OffsetParams : ListHistoryCount(1, t, i, l, o, TRUE)
    \/ ListHistoryPage(1, TRUE)
    \/ \E kind \in HistoryRowKinds, operation \in HistoryOperations, at \in CreatedAts :
            OtherRecordHistory(kind, operation, at)

\* one history query, on a store that does not fail, while other requests record
\* their changes
HistorySpec == HistoryInit /\ [][HistoryNext]_vars

(* ======================= properties ======================= *)
\* the rows of the backends table that carry the name
RowsNamed(name) == {i \in 1..Len(backends) : backends[i].name = name}

\* under SerialSpec (one request at a time, slot 1): the step starts a request
\* of kind op, and req'[1] holds the request and how far its first step took it
SerialStart(op) == nreq' = nreq + 1 /\ req'[1].op = op

\* slot p takes the step that leads its request from pc a to pc b
Moves(p, a, b) == req[p].pc = a /\ req'[p].pc = b

\* C1: a CreateBackend request with a non-empty name that no row has yet and a
\* non-empty addr stores a row that GetBackendByName(name), read right after the
\* insert, returns with the name, addr, description and enabled of the payload,
\* also when the payload carries enabled=false.
C1_CreateReadsBackPayload ==
    [][\A p \in Procs :
        (Moves(p, "cb_insert", "history") /\ RowsNamed(req[p].name) = {})
        => LET pl == req[p].payload IN
           \A got \in GetBackendByName(StrField(pl, "name"))' :
                /\ got # None
                /\ got[1].name = StrField(pl, "name")
                /\ got[1].addr = StrField(pl, "addr")
                /\ got[1].description = StrField(pl, "description")
                /\ Has(pl, "enabled") => got[1].enabled = BoolField(pl, "enabled")
      ]_vars

\* C2: a CreateBackend request whose name is the name of an existing row, enabled
\* or soft-deleted, ends in its first step without success, changes no row of any
\* table and adds no history row; its result is Conflict whenever the payload
\* passes the required-field validation that runs before the existence check.
C2_DuplicateNameConflict ==
    [][(SerialStart("CreateBackend") /\ RowsNamed(req'[1].name) # {})
        => /\ req'[1].pc = "done"
           /\ req'[1].result \in {"Conflict", "ValidationError"}
           /\ (StrField(req'[1].payload, "addr") # "" => req'[1].result = "Conflict")
           /\ UNCHANGED <<backends, routes, history>>
      ]_vars

\* a create of the name of a soft-deleted backend has been answered with Conflict
C2_Witness ==
    /\ req[1].pc = "done" /\ req[1].op = "CreateBackend" /\ req[1].result = "Conflict"
    /\ \E i \in RowsNamed(req[1].name) : ~backends[i].enabled

\* C3: under any interleaving of concurrent CreateBackend requests no two backend
\* rows have the same name, and every backend row has a non-empty name and a
\* non-empty addr.
C3_UniqueNonEmptyNames ==
    /\ \A i, j \in 1..Len(backends) :
            backends[i].name = backends[j].name => i = j
    /\ \A i \in 1..Len(backends) : backends[i].name # "" /\ backends[i].addr # ""

\* C4: a delete of the name of an existing backend row succeeds, however soon
\* after an earlier delete of that name it runs: it is not answered NotFound, and
\* the row is present with enabled=false afterwards.
C4_DeleteIdempotent ==
    (req[1].pc = "done" /\ req[1].op = "DeleteBackend" /\ RowsNamed(req[1].name) # {})
    => /\ req[1].result = "NoContent"
       /\ \A i \in RowsNamed(req[1].name) : ~backends[i].enabled

\* C5: no step removes a row or changes the id of a row (nor the name of a backend
\* row), so every row ever created stays in its table; and right after a
\* successful delete, GetBackendByName / GetRouteByID returns the row with
\* enabled=false.
C5_RowsNeverRemoved ==
    [][/\ Len(backends') >= Len(backends)
       /\ \A i \in 1..Len(backends) :
            backends'[i].id = backends[i].id /\ backends'[i].name = backends[i].name
       /\ Len(routes') >= Len(routes)
       /\ \A i \in 1..Len(routes) : routes'[i].id = routes[i].id
       /\ \A p \in Procs :
            /\ Moves(p, "db_write", "history")
                => \A got \in GetBackendByName(req[p].name)' :
                        got # None /\ ~got[1].enabled
            /\ Moves(p, "dr_write", "history")
                => LET got == GetRouteByID(req[p].id)'
                   IN got # None /\ ~got[1].enabled
      ]_vars

\* a backend delete and a route delete have both gone through, and both rows are
\* still stored, disabled
C5_Witness ==
    /\ \E p \in Procs : /\ req[p].op = "DeleteBackend" /\ req[p].result = "NoContent"
                        /\ \E i \in RowsNamed(req[p].name) : ~backends[i].enabled
    /\ \E p \in Procs : /\ req[p].op = "DeleteRoute" /\ req[p].result = "NoContent"
                        /\ req[p].id \in 1..Len(routes)
                        /\ ~routes[req[p].id].enabled

\* the enabled value an update with this payload leaves in a row that held stored
EnabledAfter(payload, stored) ==
    IF Has(payload, "enabled") THEN BoolField(payload, "enabled") ELSE stored

\* C6: with no concurrent request, a Backend or Route update that gets to its
\* store write leaves the stored enabled value as it was when the payload has no
\* key enabled, leaves the entity disabled when the payload has enabled=false and
\* enabled when it has enabled=true.
C6_EnabledMerge ==
    [][/\ (req[1].pc = "ub_write" /\ req'[1].pc # "ub_write")
            => \A i \in RowsNamed(req[1].name) :
                    backends'[i].enabled =
                        EnabledAfter(req[1].payload, backends[i].enabled)
       /\ (req[1].pc = "ur_write" /\ req'[1].pc # "ur_write")
            => routes'[req[1].id].enabled =
                    EnabledAfter(req[1].payload, routes[req[1].id].enabled)
      ]_vars

\* an update without the key enabled has gone through on a disabled backend and
\* has changed its addr
C6_Witness ==
    /\ req[1].pc = "history" /\ req[1].op = "UpdateBackend"
    /\ ~Has(req[1].payload, "enabled")
    /\ \E i \in RowsNamed(req[1].name) :
            ~backends[i].enabled /\ backends[i].addr = StrField(req[1].payload, "addr")
    /\ req[1].old[1].addr # req[1].ent[1].addr

\* the non-identity string fields of a route other than enabled
RouteStringKeys == RequiredRouteKeys \cup {"description"}

\* C7 as claimed: a successful update overwrites each field its payload contains
\* and leaves each field its payload omits as stored (enabled apart).
C7_OmittedFieldsPreserved ==
    [][/\ Moves(1, "ub_write", "history")
            => \A i \in RowsNamed(req[1].name), k \in {"addr", "description"} :
                    backends'[i][k] = IF Has(req[1].payload, k)
                                      THEN req[1].payload[k][1] ELSE backends[i][k]
       /\ Moves(1, "ur_write", "history")
            => \A k \in RouteStringKeys \cup {"timeout_ms"} :
                    routes'[req[1].id][k] = IF Has(req[1].payload, k)
                                            THEN req[1].payload[k][1]
                                            ELSE routes[req[1].id][k]
      ]_vars

\* C7 amended: a successful update overwrites each field its payload contains with
\* the payload value and stores the empty string for a description its payload
\* omits; its payload never omits a required field (addr; method, pattern,
\* backend_name, backend_service, backend_method).
C7_OmittedDescriptionZeroed ==
    [][/\ Moves(1, "ub_write", "history")
            => /\ Has(req[1].payload, "addr")
               /\ \A i \in RowsNamed(req[1].name), k \in {"addr", "description"} :
                    backends'[i][k] = StrField(req[1].payload, k)
       /\ Moves(1, "ur_write", "history")
            => /\ \A k \in RequiredRouteKeys : Has(req[1].payload, k)
               /\ \A k \in RouteStringKeys :
                    routes'[req[1].id][k] = StrField(req[1].payload, k)
               /\ Has(req[1].payload, "timeout_ms")
                    => routes'[req[1].id].timeout_ms = req[1].payload.timeout_ms[1]
      ]_vars

\* a route update whose payload omits description and carries a timeout_ms has gone
\* through on a route that held a description and another timeout_ms: the row now
\* holds "" and the timeout_ms of the payload
C7_Witness ==
    /\ req[1].pc = "history" /\ req[1].op = "UpdateRoute"
    /\ ~Has(req[1].payload, "description") /\ Has(req[1].payload, "timeout_ms")
    /\ req[1].old[1].description # ""
    /\ req[1].old[1].timeout_ms # req[1].payload.timeout_ms[1]
    /\ routes[req[1].id].description = ""
    /\ routes[req[1].id].timeout_ms = req[1].payload.timeout_ms[1]

\* the payload lacks a required field of a backend update / of a route
LacksAddr(payload) == StrField(payload, "addr") = ""
LacksRouteField(payload) == \E k \in RequiredRouteKeys : StrField(payload, k) = ""

\* C8 as claimed: an update of an existing backend or route, whose stored record
\* holds non-empty values for every required field, is never rejected with
\* ValidationError, whichever of these fields its payload omits.
C8_ValidationOnMerged ==
    (req[1].pc = "done" /\ req[1].result = "ValidationError")
    => /\ req[1].op = "UpdateBackend"
            => ~ \E i \in RowsNamed(req[1].name) : backends[i].addr # ""
       /\ req[1].op = "UpdateRoute"
            => ~ (req[1].id \in 1..Len(routes) /\ ~RequiredMissing(routes[req[1].id]))

\* C8 amended: required-field validation of an update is applied to the decoded
\* payload, into which only enabled is merged: an update of an existing backend is
\* rejected with ValidationError exactly when its payload has no non-empty addr,
\* an update of an existing route exactly when its payload lacks a non-empty
\* method, pattern, backend_name, backend_service or backend_method, whatever the
\* stored record holds; a rejected update changes nothing.
C8_ValidationOnPayload ==
    [][/\ (SerialStart("UpdateBackend") /\ RowsNamed(req'[1].name) # {})
            => /\ (req'[1].result = "ValidationError") <=> LacksAddr(req'[1].payload)
               /\ LacksAddr(req'[1].payload)
                    => req'[1].pc = "done" /\ UNCHANGED <<backends, routes, history>>
       /\ (SerialStart("UpdateRoute") /\ req'[1].id \in 1..Len(routes))
            => /\ (req'[1].result = "ValidationError")
                    <=> LacksRouteField(req'[1].payload)
               /\ LacksRouteField(req'[1].payload)
                    => req'[1].pc = "done" /\ UNCHANGED <<backends, routes, history>>
      ]_vars

\* an update that carries only enabled has been rejected with ValidationError
\* although the stored backend has an addr
C8_Witness ==
    /\ req[1].pc = "done" /\ req[1].op = "UpdateBackend"
    /\ req[1].result = "ValidationError"
    /\ Has(req[1].payload, "enabled") /\ ~Has(req[1].payload, "addr")
    /\ ~Has(req[1].payload, "description")
    /\ \E i \in RowsNamed(req[1].name) : backends[i].addr # ""

\* C9: a CreateRoute request with all required fields non-empty whose backend_name
\* names no backend row, or a row with enabled=false, ends in its first step with
\* InvalidReference; it creates no route row and no history row.
C9_InvalidReference ==
    [][(/\ SerialStart("CreateRoute")
        /\ ~LacksRouteField(req'[1].payload)
        /\ \A i \in RowsNamed(req'[1].name) : ~backends[i].enabled)
        => /\ req'[1].pc = "done"
           /\ req'[1].result = "InvalidReference"
           /\ UNCHANGED <<backends, routes, history>>
      ]_vars

\* a create of a route to a soft-deleted backend has been answered InvalidReference
C9_Witness ==
    /\ req[1].pc = "done" /\ req[1].op = "CreateRoute"
    /\ req[1].result = "InvalidReference"
    /\ \E i \in RowsNamed(req[1].name) : ~backends[i].enabled

\* some row carries the name and every row that carries it is enabled
NamesEnabledBackend(name) ==
    RowsNamed(name) # {} /\ \A i \in RowsNamed(name) : backends[i].enabled

\* C10: under any interleaving of route creates and updates with backend deletes
\* and updates, when a route row is inserted and when the backend_name of a route
\* row is changed, the backend row it names exists and has enabled=true.
C10_BackendEnabledAtWrite ==
    [][\A p \in Procs :
        /\ Moves(p, "cr_insert", "history")
            => NamesEnabledBackend(routes'[Len(routes')].backend_name)
        /\ (Moves(p, "ur_write", "history")
            /\ routes'[req[p].id].backend_name # routes[req[p].id].backend_name)
            => NamesEnabledBackend(routes'[req[p].id].backend_name)
      ]_vars

\* C11: UpdateRoute looks the backend up exactly when the payload's backend_name
\* differs from the stored one; an update that keeps the stored backend_name
\* succeeds whatever the state of that backend, and an update to another
\* backend_name whose backend is missing or disabled ends with InvalidReference
\* and leaves every row as it was.
C11_RecheckOnChange ==
    [][/\ (/\ SerialStart("UpdateRoute")
           /\ req'[1].id \in 1..Len(routes)
           /\ ~LacksRouteField(req'[1].payload))
            => req'[1].pc =
                IF StrField(req'[1].payload, "backend_name")
                        = routes[req'[1].id].backend_name
                THEN "ur_write" ELSE "ur_check"
       /\ (/\ req[1].pc = "ur_write" /\ req'[1].pc # "ur_write"
           /\ req[1].ent[1].backend_name = routes[req[1].id].backend_name)
            => req'[1].pc = "history" /\ req'[1].result = "OK"
       /\ (req[1].pc = "ur_check" /\ req'[1].pc # "ur_check")
            => IF NamesEnabledBackend(req[1].ent[1].backend_name)
               THEN req'[1].pc = "ur_write"
               ELSE /\ req'[1].pc = "done" /\ req'[1].result = "InvalidReference"
                    /\ UNCHANGED <<backends, routes, history>>
      ]_vars

\* the results that report a request as successful
Success == {"Created", "OK", "NoContent"}

\* the kind of entity and the kind of change a request is about
EntityKind(op) ==
    IF op \in {"CreateRoute", "UpdateRoute", "DeleteRoute"} THEN "route" ELSE "backend"
ChangeKind(op) ==
    IF op \in {"CreateBackend", "CreateRoute"} THEN "CREATE"
    ELSE IF op \in {"DeleteBackend", "DeleteRoute"} THEN "DELETE" ELSE "UPDATE"

\* the entity the request of slot p has written is stored under the id the
\* request carries
EntityStored(p) ==
    IF EntityKind(req[p].op) = "backend"
    THEN \E i \in RowsNamed(req[p].name) : backends[i].id = req[p].id
    ELSE req[p].id \in 1..Len(routes)

\* the step appends to config_history the one row that describes the request of
\* slot p
AppendsRowOf(p) ==
    /\ Len(history') = Len(history) + 1
    /\ SubSeq(history', 1, Len(history)) = history
    /\ history'[Len(history')].operation = ChangeKind(req[p].op)
    /\ history'[Len(history')].config_type = EntityKind(req[p].op)
    /\ history'[Len(history')].config_id = req[p].id

\* a request is reported successful only by the step that follows its entity
\* write, and config_history changes in such steps only
HistoryStepsOnly ==
    /\ \A p \in Procs :
        (req'[p] # req[p] /\ req'[p].pc = "done" /\ req'[p].result \in Success)
        => req[p].pc = "history" /\ req[p].result = req'[p].result /\ EntityStored(p)
    /\ history' # history => \E p \in Procs : Moves(p, "history", "done")

\* C12 as claimed: every request that is reported successful adds exactly one row
\* to config_history, after its entity write, with the operation of the request,
\* the config_type of the entity and the id of the entity as config_id.
C12_OneHistoryRowPerSuccess ==
    [][/\ HistoryStepsOnly
       /\ \A p \in Procs : Moves(p, "history", "done") => AppendsRowOf(p)
      ]_vars

\* C12 amended: every request that is reported successful adds, after its entity
\* write, exactly one such row to config_history when its CreateHistory call
\* returns without an error, and no row when that call fails.
C12_OneHistoryRowUnlessFailed ==
    [][/\ HistoryStepsOnly
       /\ \A p \in Procs :
            Moves(p, "history", "done") => (AppendsRowOf(p) \/ history' = history)
      ]_vars

\* a route update has been reported successful and its UPDATE row is the newest
\* row of config_history
C12_Witness ==
    \E p \in Procs :
        /\ req[p].pc = "done" /\ req[p].op = "UpdateRoute" /\ req[p].result = "OK"
        /\ history # <<>>
        /\ history[Len(history)].operation = "UPDATE"
        /\ history[Len(history)].config_type = "route"
        /\ history[Len(history)].config_id = req[p].id

\* C13: when the CreateHistory call of a request fails (the request leaves its
\* history step and config_history is as before), the entity tables stay as
\* written, the request ends with the successful result of its entity write, and
\* it has no further history step: a request enters the history step from its
\* entity write only.
C13_HistoryFailureSwallowed ==
    [][\A p \in Procs :
        /\ (req[p].pc = "history" /\ req'[p] # req[p] /\ history' = history)
            => /\ req'[p].pc = "done"
               /\ req'[p].result = req[p].result /\ req[p].result \in Success
               /\ UNCHANGED <<backends, routes>>
               /\ EntityStored(p)
        /\ (req'[p].pc = "history" /\ req[p].pc # "history")
            => req[p].pc \in {"cb_insert", "ub_write", "db_write",
                              "cr_insert", "ur_write", "dr_write"}
      ]_vars

\* a backend create on an empty store has been reported successful although its
\* history insert failed: the backend is stored and config_history is empty
C13_Witness ==
    \E p \in Procs :
        /\ req[p].pc = "done" /\ req[p].op = "CreateBackend"
        /\ req[p].result = "Created"
        /\ history = <<>>
        /\ \E i \in RowsNamed(req[p].name) : backends[i].id = req[p].id

\* C14: under any interleaving of updates and deletes of the same entity, the
\* old_value an update records is the stored state of the entity immediately
\* before its write and the new_value the stored state immediately after it; the
\* UPDATE row written for the request carries these two values.
C14_UpdateHistoryValues ==
    [][\A p \in Procs :
        /\ Moves(p, "ub_write", "history")
            => \A i \in RowsNamed(req[p].name) :
                    /\ req'[p].old = Some(ScanBackend(backends[i]))
                    /\ req'[p].ent = Some(ScanBackend(backends'[i]))
        /\ Moves(p, "ur_write", "history")
            => /\ req'[p].old = Some(ScanRoute(routes[req[p].id]))
               /\ req'[p].ent = Some(ScanRoute(routes'[req[p].id]))
        /\ (Moves(p, "history", "done") /\ ChangeKind(req[p].op) = "UPDATE"
            /\ history' # history)
            => /\ history'[Len(history')].old_value = req[p].old
               /\ history'[Len(history')].new_value = req[p].ent
      ]_vars

\* C15: a create records old_value absent and new_value equal to the entity it
\* created; a delete records new_value absent and old_value equal to the entity as
\* it was stored before the delete, with the enabled value it had then; the CREATE
\* or DELETE row written for the request carries these two values.
C15_CreateDeleteHistoryValues ==
    [][/\ Moves(1, "cb_insert", "history")
            => /\ req'[1].old = None
               /\ req'[1].ent = Some(ScanBackend(backends'[Len(backends')]))
       /\ Moves(1, "cr_insert", "history")
            => /\ req'[1].old = None
               /\ req'[1].ent = Some(ScanRoute(routes'[Len(routes')]))
       /\ Moves(1, "db_write", "history")
            => /\ req'[1].ent = None
               /\ \A i \in RowsNamed(req[1].name) :
                    req'[1].old = Some(ScanBackend(backends[i]))
       /\ Moves(1, "dr_write", "history")
            => /\ req'[1].ent = None
               /\ req'[1].old = Some(ScanRoute(routes[req[1].id]))
       /\ (Moves(1, "history", "done") /\ ChangeKind(req[1].op) # "UPDATE")
            => /\ Len(history') = Len(history) + 1
               /\ history'[Len(history')].old_value = req[1].old
               /\ history'[Len(history')].new_value = req[1].ent
      ]_vars

\* C16: every step of a request that is not (or not yet) reported successful
\* leaves backends, routes and config_history exactly as they are, and a request
\* whose entity write succeeded keeps its successful result; so a request that
\* ends with ValidationError, InvalidReference, NotFound, Conflict or StorageError
\* has changed no entity field and added no history row.
C16_FailedRequestsChangeNothing ==
    [][/\ \A p \in Procs :
            req'[p] # req[p]
            => /\ req'[p].result \notin Success
                    => UNCHANGED <<backends, routes, history>>
               /\ (nreq' = nreq /\ req[p].result \in Success)
                    => req'[p].result = req[p].result
       /\ nreq' # nreq => UNCHANGED <<backends, routes, history>>
      ]_vars

\* a route update has ended with StorageError and the tables are those the
\* service started with
C16_Witness ==
    /\ backends = SeedBackends /\ routes = SeedRoutes /\ history = SeedHistory
    /\ \E p \in Procs :
        /\ req[p].pc = "done" /\ req[p].op = "UpdateRoute"
        /\ req[p].result = "StorageError"
        /\ req[p].id = 1

\* C17: config_history is append-only: a step leaves it as it is or adds one row
\* after the existing rows, which stay as they are, and the id of the new row is
\* greater than the id of every existing row.
C17_HistoryAppendOnly ==
    [][\/ history' = history
       \/ /\ Len(history') = Len(history) + 1
          /\ SubSeq(history', 1, Len(history)) = history
          /\ \A i \in 1..Len(history) : history'[Len(history')].id > history[i].id
      ]_vars

\* two requests have added their rows after the rows the service started with
C17_Witness ==
    /\ Len(history) = Len(SeedHistory) + 2
    /\ SubSeq(history, 1, Len(SeedHistory)) = SeedHistory
    /\ history[Len(history)].id > history[Len(history) - 1].id

\* C18: a history query answers with rows that match every filter given, at most
\* limit of them, taken from position offset of the matching rows ordered from
\* newest to oldest created_at, and with total the number of all matching rows.
C18_HistoryPage ==
    [][Moves(1, "lh_page", "done") =>
        /\ req'[1].result = "OK"
        /\ LET q == req[1].payload
               res == req'[1].ent[1]
               items == res.items
               Wanted(h) == /\ q.config_type = None \/ h.config_type = q.config_type[1]
                            /\ q.config_id = None \/ h.config_id = q.config_id[1]
               matching == {i \in 1..Len(history) : Wanted(history[i])}
               M == Cardinality(matching)
               Newer(h) == Cardinality({i \in matching :
                                           history[i].created_at > h.created_at})
               NotOlder(h) == Cardinality({i \in matching :
                                           history[i].created_at >= h.created_at})
           IN /\ res.total = M
              /\ Len(items) <= res.limit
              /\ Len(items) = IF M - res.offset < 0 THEN 0
                              ELSE IF M - res.offset < res.limit THEN M - res.offset
                              ELSE res.limit
              /\ \A k \in 1..Len(items) :
                   /\ \E i \in matching : history[i] = items[k]
                   /\ Newer(items[k]) <= res.offset + k - 1
                   /\ NotOlder(items[k]) >= res.offset + k
              /\ \A j, k \in 1..Len(items) :
                   j < k => /\ items[j].id # items[k].id
                            /\ items[j].created_at >= items[k].created_at
      ]_vars

\* C19: every stored route has a timeout_ms greater than zero, whatever creates and
\* updates of routes have run.
C19_TimeoutPositive ==
    \A i \in 1..Len(routes) : routes[i].timeout_ms > 0

\* C20: once a delete of an entity has succeeded, the entity stays disabled until an
\* update whose body carries enabled = true is written; an update that leaves
\* enabled out never enables it again, whenever it read the entity.
C20_DeleteNotUndone ==
    [][/\ \A i \in 1..Len(backends) :
            (/\ ~backends[i].enabled
             /\ backends'[i].enabled
             /\ \E q \in Procs : /\ req[q].op = "DeleteBackend"
                                 /\ req[q].result = "NoContent"
                                 /\ req[q].id = backends[i].id)
            => \E p \in Procs : /\ req[p].pc = "ub_write"
                                /\ req'[p].pc # "ub_write"
                                /\ req[p].name = backends[i].name
                                /\ req[p].payload.enabled = Some(TRUE)
       /\ \A i \in 1..Len(routes) :
            (/\ ~routes[i].enabled
             /\ routes'[i].enabled
             /\ \E q \in Procs : /\ req[q].op = "DeleteRoute"
                                 /\ req[q].result = "NoContent"
                                 /\ req[q].id = routes[i].id)
            => \E p \in Procs : /\ req[p].pc = "ur_write"
                                /\ req'[p].pc # "ur_write"
                                /\ req[p].id = routes[i].id
                                /\ req[p].payload.enabled = Some(TRUE)
      ]_vars

\* the number of history rows the service started with
InitialRows ==
    IF /\ Len(history) >= Len(SeedHistory)
       /\ SubSeq(history, 1, Len(SeedHistory)) = SeedHistory
    THEN Len(SeedHistory) ELSE 0

\* the history rows of one entity, and the newest of a set of rows (the largest id)
RowsOf(kind, id) ==
    {k \in 1..Len(history) : history[k].config_type = kind /\ history[k].config_id = id}
Newest(rows) == CHOOSE k \in rows : \A j \in rows : history[j].id <= history[k].id

\* C21: the history rows of an entity are ordered by id as the entity's writes were
\* committed, so when no request is in flight and every request so far has written
\* its history row, an entity whose newest history row is a CREATE or an UPDATE is
\* stored as that row's new_value describes it.
C21_NewestRowDescribesState ==
    (/\ \A p \in Procs : req[p].pc \in {"idle", "done"}
     /\ Len(history) = InitialRows + nreq)
    => /\ \A i \in 1..Len(backends) :
            LET rows == RowsOf("backend", backends[i].id) IN
            (rows # {} /\ history[Newest(rows)].operation \in {"CREATE", "UPDATE"})
            => history[Newest(rows)].new_value = Some(ScanBackend(backends[i]))
       /\ \A i \in 1..Len(routes) :
            LET rows == RowsOf("route", routes[i].id) IN
            (rows # {} /\ history[Newest(rows)].operation \in {"CREATE", "UPDATE"})
            => history[Newest(rows)].new_value = Some(ScanRoute(routes[i]))

\* C22: the backend_name of every stored route is the name of a backend row in
\* the store; that backend may be disabled.
C22_RouteBackendExists ==
    \A i \in 1..Len(routes) :
        \E j \in 1..Len(backends) : backends[j].name = routes[i].backend_name

\* a route written by a request whose backend has been deleted since: the backend
\* row is still there, disabled
C22_Witness ==
    \E p, q \in Procs :
        /\ req[p].op \in {"CreateRoute", "UpdateRoute"}
        /\ req[p].result \in Success
        /\ req[q].op = "DeleteBackend"
        /\ req[q].result = "NoContent"
        /\ \E i \in 1..Len(routes) :
            /\ routes[i].id = req[p].id
            /\ routes[i].backend_name = req[q].name
            /\ \E j \in 1..Len(backends) : /\ backends[j].name = req[q].name
                                           /\ ~backends[j].enabled

====
